---- MODULE Spec2Model ----
(***************************************************************************)
(* Model of howler/odm/models/howler_data.py: the HowlerEnum enumerations  *)
(* with their membership test and lookup, the Assessment -> Escalation     *)
(* table, the Log constructor's rule, and the construction of HowlerData   *)
(* records with their defaulted collections.                               *)
(*                                                                         *)
(* Python strings are sequences of one-character strings, so that upper()  *)
(* and replace() are computed character by character as Python does.       *)
(***************************************************************************)
EXTENDS Integers, Sequences, FiniteSets, TLC

VARIABLES
    eCall, eRet,      \* the call on an enumeration being made, and its result
    logCall, logRet,  \* the Log(...) construction being made, and its result
    heap,             \* the list objects: heap[r] is the content of list r
    hits,             \* the HowlerData instances constructed, oldest first
    touched,          \* the <<instance, cell>> pairs that were appended to
    hCall             \* the last operation on HowlerData instances

enumVars == <<eCall, eRet>>
logVars == <<logCall, logRet>>
hitVars == <<heap, hits, touched, hCall>>
vars == <<eCall, eRet, logCall, logRet, heap, hits, touched, hCall>>

----------------------------------------------------------------------------
(* Bounds of the model *)

\* The largest number of blanks appended to a token before it is tested.
MaxPad == 1

\* The largest number of HowlerData instances constructed.
MaxHits == 2

\* The largest number of appends to the collections of the instances.
MaxAppends == 1

----------------------------------------------------------------------------
(* str.upper(), str.lower() and str.replace() on ASCII strings *)

LowerAlpha ==
    <<"a","b","c","d","e","f","g","h","i","j","k","l","m",
      "n","o","p","q","r","s","t","u","v","w","x","y","z">>

UpperAlpha ==
    <<"A","B","C","D","E","F","G","H","I","J","K","L","M",
      "N","O","P","Q","R","S","T","U","V","W","X","Y","Z">>

upper_char(c) ==
    IF \E i \in 1..26 : LowerAlpha[i] = c
    THEN UpperAlpha[CHOOSE i \in 1..26 : LowerAlpha[i] = c]
    ELSE c

lower_char(c) ==
    IF \E i \in 1..26 : UpperAlpha[i] = c
    THEN LowerAlpha[CHOOSE i \in 1..26 : UpperAlpha[i] = c]
    ELSE c

\* str.upper()
str_upper(s) == [i \in 1..Len(s) |-> upper_char(s[i])]

\* str.lower()
str_lower(s) == [i \in 1..Len(s) |-> lower_char(s[i])]

\* str.replace(a, b) for one-character a and b
str_replace(s, a, b) == [i \in 1..Len(s) |-> IF s[i] = a THEN b ELSE s[i]]

----------------------------------------------------------------------------
(* enum.EnumMeta: what Python builds from a class body of NAME = value     *)
(* lines.  A name whose value an earlier name already carries is an alias  *)
(* of that earlier member: iteration skips it, and looking the alias up    *)
(* returns the earlier member.                                             *)

\* The members iteration yields (for e in cls): the first declared name of
\* each value, in declaration order.
EnumMeta_iter(decl) ==
    LET pos(e) == CHOOSE i \in 1..Len(decl) : decl[i] = e
        first(e) == \A j \in 1..Len(decl) :
                        decl[j].value = e.value => pos(e) <= j
    IN  SelectSeq(decl, first)

\* The member a declared name is bound to (cls.NAME): the first declared
\* member carrying that name's value.
EnumAttr(decl, name) ==
    LET k == CHOOSE k \in 1..Len(decl) : decl[k].name = name
        f == CHOOSE i \in 1..Len(decl) :
                 /\ decl[i].value = decl[k].value
                 /\ \A j \in 1..Len(decl) : decl[j].value = decl[k].value => j >= i
    IN  decl[f]

\* EnumMeta.__getitem__(name): cls._member_map_[name], KeyError otherwise.
EnumMeta_getitem(decl, name) ==
    IF \E k \in 1..Len(decl) : decl[k].name = name
    THEN [ok |-> TRUE, member |-> EnumAttr(decl, name)]
    ELSE [ok |-> FALSE, error |-> "KeyError"]

----------------------------------------------------------------------------
(* The enumerations *)

\* howler_data.py:30-38  class Scrutiny(str, HowlerEnum): the declared (name, value)
\* pairs in declaration order.
Scrutiny ==
    <<
       [name |-> <<"U","N","S","E","E","N">>,
        value |-> <<"u","n","s","e","e","n">>],
       [name |-> <<"S","U","R","V","E","Y","E","D">>,
        value |-> <<"s","u","r","v","e","y","e","d">>],
       [name |-> <<"S","C","A","N","N","E","D">>,
        value |-> <<"s","c","a","n","n","e","d">>],
       [name |-> <<"I","N","S","P","E","C","T","E","D">>,
        value |-> <<"i","n","s","p","e","c","t","e","d">>],
       [name |-> <<"I","N","V","E","S","T","I","G","A","T","E","D">>,
        value |-> <<"i","n","v","e","s","t","i","g","a","t","e","d">>]
    >>

\* howler_data.py:41-48  class HitStatus(str, HowlerEnum): the declared (name, value)
\* pairs in declaration order.
HitStatus ==
    <<
       [name |-> <<"O","P","E","N">>,
        value |-> <<"o","p","e","n">>],
       [name |-> <<"I","N","_","P","R","O","G","R","E","S","S">>,
        value |-> <<"i","n","-","p","r","o","g","r","e","s","s">>],
       [name |-> <<"O","N","_","H","O","L","D">>,
        value |-> <<"o","n","-","h","o","l","d">>],
       [name |-> <<"R","E","S","O","L","V","E","D">>,
        value |-> <<"r","e","s","o","l","v","e","d">>]
    >>

\* howler_data.py:51-65  class HitStatusTransition(str, HowlerEnum): the declared (name, value)
\* pairs in declaration order.
HitStatusTransition ==
    <<
       [name |-> <<"A","S","S","I","G","N","_","T","O","_","M","E">>,
        value |-> <<"a","s","s","i","g","n","_","t","o","_","m","e">>],
       [name |-> <<"A","S","S","I","G","N","_","T","O","_","O","T","H","E","R">>,
        value |-> <<"a","s","s","i","g","n","_","t","o","_","o","t","h","e","r">>],
       [name |-> <<"V","O","T","E">>,
        value |-> <<"v","o","t","e">>],
       [name |-> <<"A","S","S","E","S","S">>,
        value |-> <<"a","s","s","e","s","s">>],
       [name |-> <<"R","E","L","E","A","S","E">>,
        value |-> <<"r","e","l","e","a","s","e">>],
       [name |-> <<"S","T","A","R","T">>,
        value |-> <<"s","t","a","r","t">>],
       [name |-> <<"P","A","U","S","E">>,
        value |-> <<"p","a","u","s","e">>],
       [name |-> <<"R","E","S","U","M","E">>,
        value |-> <<"r","e","s","u","m","e">>],
       [name |-> <<"R","E","_","E","V","A","L","U","A","T","E">>,
        value |-> <<"r","e","_","e","v","a","l","u","a","t","e">>],
       [name |-> <<"P","R","O","M","O","T","E">>,
        value |-> <<"p","r","o","m","o","t","e">>],
       [name |-> <<"D","E","M","O","T","E">>,
        value |-> <<"d","e","m","o","t","e">>]
    >>

\* howler_data.py:68-74  class HitOperationType(str, HowlerEnum): the declared (name, value)
\* pairs in declaration order.
HitOperationType ==
    <<
       [name |-> <<"A","P","P","E","N","D","E","D">>,
        value |-> <<"a","p","p","e","n","d","e","d">>],
       [name |-> <<"R","E","M","O","V","E","D">>,
        value |-> <<"r","e","m","o","v","e","d">>],
       [name |-> <<"S","E","T">>,
        value |-> <<"s","e","t">>]
    >>

\* howler_data.py:77-84  class Escalation(str, HowlerEnum): the declared (name, value)
\* pairs in declaration order.
Escalation ==
    <<
       [name |-> <<"A","L","E","R","T">>,
        value |-> <<"a","l","e","r","t">>],
       [name |-> <<"E","V","I","D","E","N","C","E">>,
        value |-> <<"e","v","i","d","e","n","c","e">>],
       [name |-> <<"H","I","T">>,
        value |-> <<"h","i","t">>],
       [name |-> <<"M","I","S","S">>,
        value |-> <<"m","i","s","s">>]
    >>

\* howler_data.py:87-93  class Vote(str, HowlerEnum): the declared (name, value)
\* pairs in declaration order.
Vote ==
    <<
       [name |-> <<"M","A","L","I","C","I","O","U","S">>,
        value |-> <<"m","a","l","i","c","i","o","u","s">>],
       [name |-> <<"O","B","S","C","U","R","E">>,
        value |-> <<"o","b","s","c","u","r","e">>],
       [name |-> <<"B","E","I","N","I","G","N">>,
        value |-> <<"b","e","n","i","g","n">>]
    >>

\* howler_data.py:96-111  class Assessment(str, HowlerEnum): the declared (name, value)
\* pairs in declaration order.
Assessment ==
    <<
       [name |-> <<"A","M","B","I","G","U","O","U","S">>,
        value |-> <<"a","m","b","i","g","u","o","u","s">>],
       [name |-> <<"S","E","C","U","R","I","T","Y">>,
        value |-> <<"s","e","c","u","r","i","t","y">>],
       [name |-> <<"D","E","V","E","L","O","P","M","E","N","T">>,
        value |-> <<"d","e","v","e","l","o","p","m","e","n","t">>],
       [name |-> <<"F","A","L","S","E","_","P","O","S","I","T","I","V","E">>,
        value |-> <<"f","a","l","s","e","-","p","o","s","i","t","i","v","e">>],
       [name |-> <<"L","E","G","I","T","I","M","A","T","E">>,
        value |-> <<"l","e","g","i","t","i","m","a","t","e">>],
       [name |-> <<"T","R","I","V","I","A","L">>,
        value |-> <<"t","r","i","v","i","a","l">>],
       [name |-> <<"R","E","C","O","N">>,
        value |-> <<"r","e","c","o","n">>],
       [name |-> <<"A","T","T","E","M","P","T">>,
        value |-> <<"a","t","t","e","m","p","t">>],
       [name |-> <<"C","O","M","P","R","O","M","I","S","E">>,
        value |-> <<"c","o","m","p","r","o","m","i","s","e">>],
       [name |-> <<"M","I","T","I","G","A","T","E","D">>,
        value |-> <<"m","i","t","i","g","a","t","e","d">>]
    >>

\* The table with RECON entered as a miss.
AssessmentEscalationMap_ReconMiss ==
    <<
       [name |-> <<"A","M","B","I","G","U","O","U","S">>,
        value |-> EnumAttr(Escalation, <<"M","I","S","S">>).value],
       [name |-> <<"A","T","T","E","M","P","T">>,
        value |-> EnumAttr(Escalation, <<"E","V","I","D","E","N","C","E">>).value],
       [name |-> <<"C","O","M","P","R","O","M","I","S","E">>,
        value |-> EnumAttr(Escalation, <<"E","V","I","D","E","N","C","E">>).value],
       [name |-> <<"D","E","V","E","L","O","P","M","E","N","T">>,
        value |-> EnumAttr(Escalation, <<"M","I","S","S">>).value],
       [name |-> <<"F","A","L","S","E","_","P","O","S","I","T","I","V","E">>,
        value |-> EnumAttr(Escalation, <<"M","I","S","S">>).value],
       [name |-> <<"L","E","G","I","T","I","M","A","T","E">>,
        value |-> EnumAttr(Escalation, <<"M","I","S","S">>).value],
       [name |-> <<"M","I","T","I","G","A","T","E","D">>,
        value |-> EnumAttr(Escalation, <<"E","V","I","D","E","N","C","E">>).value],
       [name |-> <<"R","E","C","O","N">>,
        value |-> EnumAttr(Escalation, <<"M","I","S","S">>).value],
       [name |-> <<"S","E","C","U","R","I","T","Y">>,
        value |-> EnumAttr(Escalation, <<"M","I","S","S">>).value],
       [name |-> <<"T","R","I","V","I","A","L">>,
        value |-> EnumAttr(Escalation, <<"E","V","I","D","E","N","C","E">>).value]
    >>


\* howler_data.py:114-130  class AssessmentEscalationMap(str, HowlerEnum): the declared (name, value)
\* pairs in declaration order.
AssessmentEscalationMap ==
    <<
       [name |-> <<"A","M","B","I","G","U","O","U","S">>,
        value |-> EnumAttr(Escalation, <<"M","I","S","S">>).value],
       [name |-> <<"A","T","T","E","M","P","T">>,
        value |-> EnumAttr(Escalation, <<"E","V","I","D","E","N","C","E">>).value],
       [name |-> <<"C","O","M","P","R","O","M","I","S","E">>,
        value |-> EnumAttr(Escalation, <<"E","V","I","D","E","N","C","E">>).value],
       [name |-> <<"D","E","V","E","L","O","P","M","E","N","T">>,
        value |-> EnumAttr(Escalation, <<"M","I","S","S">>).value],
       [name |-> <<"F","A","L","S","E","_","P","O","S","I","T","I","V","E">>,
        value |-> EnumAttr(Escalation, <<"M","I","S","S">>).value],
       [name |-> <<"L","E","G","I","T","I","M","A","T","E">>,
        value |-> EnumAttr(Escalation, <<"M","I","S","S">>).value],
       [name |-> <<"M","I","T","I","G","A","T","E","D">>,
        value |-> EnumAttr(Escalation, <<"E","V","I","D","E","N","C","E">>).value],
       [name |-> <<"R","E","C","O","N">>,
        value |-> EnumAttr(Escalation, <<"E","V","I","D","E","N","C","E">>).value],
       [name |-> <<"S","E","C","U","R","I","T","Y">>,
        value |-> EnumAttr(Escalation, <<"M","I","S","S">>).value],
       [name |-> <<"T","R","I","V","I","A","L">>,
        value |-> EnumAttr(Escalation, <<"E","V","I","D","E","N","C","E">>).value]
    >>


EnumClasses ==
    {"Scrutiny", "HitStatus", "HitStatusTransition", "HitOperationType",
     "Escalation", "Vote", "Assessment", "AssessmentEscalationMap"}

EnumDecl(cls) ==
    CASE cls = "Scrutiny" -> Scrutiny
      [] cls = "HitStatus" -> HitStatus
      [] cls = "HitStatusTransition" -> HitStatusTransition
      [] cls = "HitOperationType" -> HitOperationType
      [] cls = "Escalation" -> Escalation
      [] cls = "Vote" -> Vote
      [] cls = "Assessment" -> Assessment
      [] cls = "AssessmentEscalationMap" -> AssessmentEscalationMap

Range(s) == {s[i] : i \in 1..Len(s)}

----------------------------------------------------------------------------
(* HowlerEnumMeta and HowlerEnum *)

\* Normalize without its replace("-", "_").
Normalize_NoReplace(obj) == str_upper(obj)

\* howler_data.py:14 and :21  str(obj).upper().replace("-", "_")
Normalize(obj) == str_replace(str_upper(obj), "-", "_")

\* howler_data.py:10-18  HowlerEnumMeta.__contains__
HowlerEnumMeta_contains(decl, obj) ==
    LET lowercase == obj
        uppercase == Normalize(lowercase)
    IN  \/ uppercase \in {e.name : e \in Range(EnumMeta_iter(decl))}
        \/ lowercase \in {e.value : e \in Range(EnumMeta_iter(decl))}

\* howler_data.py:20-21  HowlerEnumMeta.__getitem__
HowlerEnumMeta_getitem(decl, name) == EnumMeta_getitem(decl, Normalize(name))

\* list() over every declared name, aliases included.
HowlerEnum_list_AllDeclared(decl) == [i \in 1..Len(decl) |-> decl[i].value]

\* list() of the names in lower case instead of the values.
HowlerEnum_list_LowerNames(decl) ==
    LET it == EnumMeta_iter(decl)
    IN  [i \in 1..Len(it) |-> str_lower(it[i].name)]

\* howler_data.py:25-27  HowlerEnum.list
HowlerEnum_list(decl) ==
    LET it == EnumMeta_iter(decl)
    IN  [i \in 1..Len(it) |-> it[i].value]

----------------------------------------------------------------------------
(* The tokens the enumeration operations are called with: every declared   *)
(* name and value of every enumeration, in upper, lower and mixed case,    *)
(* with "_", "-" or " " as the separator, followed by up to MaxPad blanks, *)
(* and the empty string.                                                   *)

AllMembers == UNION {Range(EnumDecl(cls)) : cls \in EnumClasses}

BaseStrings == {e.name : e \in AllMembers} \cup {e.value : e \in AllMembers}

\* Upper case at the odd positions, lower case at the even ones.
str_mixed(s) ==
    [i \in 1..Len(s) |-> IF i % 2 = 1 THEN upper_char(s[i]) ELSE lower_char(s[i])]

Separators == {"_", "-", " "}

\* s with every separator character replaced by c
WithSeparator(s, c) ==
    [i \in 1..Len(s) |-> IF s[i] \in Separators THEN c ELSE s[i]]

Blanks(n) == [i \in 1..n |-> " "]

Tokens ==
    {<<>>} \cup
    { WithSeparator(t, c) \o Blanks(n) :
        t \in UNION {{str_upper(s), str_lower(s), str_mixed(s)} : s \in BaseStrings},
        c \in Separators,
        n \in 0..MaxPad }

----------------------------------------------------------------------------
(* State: the call on an enumeration being made and what it returned;   *)
(* eCall.op = "none" between calls.                                        *)

InitEnum ==
    /\ eCall = [op |-> "none"]
    /\ eRet = [ok |-> TRUE]

\* token in cls
Contains(cls, token) ==
    /\ eCall.op = "none"
    /\ eCall' = [op |-> "contains", cls |-> cls, token |-> token]
    /\ eRet' = [ok |-> TRUE,
                value |-> HowlerEnumMeta_contains(EnumDecl(cls), token)]
    /\ UNCHANGED <<logVars, hitVars>>

\* cls[token]
GetItem(cls, token) ==
    /\ eCall.op = "none"
    /\ eCall' = [op |-> "getitem", cls |-> cls, token |-> token]
    /\ eRet' = HowlerEnumMeta_getitem(EnumDecl(cls), token)
    /\ UNCHANGED <<logVars, hitVars>>

\* cls.list()
List(cls) ==
    /\ eCall.op = "none"
    /\ eCall' = [op |-> "list", cls |-> cls]
    /\ eRet' = [ok |-> TRUE, value |-> HowlerEnum_list(EnumDecl(cls))]
    /\ UNCHANGED <<logVars, hitVars>>

\* The caller has taken the result.
EnumReturn ==
    /\ eCall.op # "none"
    /\ eCall' = [op |-> "none"]
    /\ eRet' = [ok |-> TRUE]
    /\ UNCHANGED <<logVars, hitVars>>

NextEnum ==
    \/ \E cls \in EnumClasses, token \in Tokens : Contains(cls, token)
    \/ \E cls \in EnumClasses, token \in Tokens : GetItem(cls, token)
    \/ \E cls \in EnumClasses : List(cls)
    \/ EnumReturn

----------------------------------------------------------------------------
(* Log *)

\* Python's None among the values of an input mapping.
None == "None"

\* howler_data.py:162-181  the fields Log declares
LogFields ==
    {"timestamp", "key", "explanation", "previous_version", "new_value",
     "type", "previous_value", "user"}

\* howler_data.py:163-180  the fields declared odm.Optional
LogOptionalFields ==
    {"key", "explanation", "previous_version", "new_value", "type",
     "previous_value"}

\* howler_data.py:185  required_keys
required_keys == {"key", "new_value", "type", "previous_value"}

\* The rule with any one of the keys enough.
LogRuleFails_AnyPresent(data) ==
    /\ "explanation" \notin DOMAIN data
    /\ required_keys \cap DOMAIN data = {}

\* howler_data.py:184-186  the two conditions under which __init__ raises
LogRuleFails(data) ==
    /\ "explanation" \notin DOMAIN data
    /\ required_keys \cap DOMAIN data # required_keys

\* The message naming only the keys that are absent.
LogErrorNames_MissingOnly(data) == required_keys \ DOMAIN data

\* howler_data.py:187-189  the names in the HowlerValueError's message:
\* ','.join(required_keys)
LogErrorNames(data) == required_keys

\* odm.Model.__init__ for Log: a declared field without odm.Optional must be
\* given; an optional field that is not given, or is given as None, is None.
Model_init_Log(data) ==
    LET missing == (LogFields \ LogOptionalFields) \ DOMAIN data
    IN  IF missing # {}
        THEN [ok |-> FALSE, error |-> "MissingRequiredField", names |-> missing]
        ELSE [ok |-> TRUE,
              obj |-> [f \in LogFields |->
                          IF f \in DOMAIN data THEN data[f] ELSE None]]

\* howler_data.py:183-191  Log.__init__
Log_init(data) ==
    IF LogRuleFails(data)
    THEN [ok |-> FALSE, error |-> "HowlerValueError",
          names |-> LogErrorNames(data)]
    ELSE Model_init_Log(data)

\* The values an input gives a field: None, or a value of the field's type.
LogFieldValues(f) ==
    CASE f \in {"timestamp", "user"} -> {"v"}
      [] f = "type" -> {None, "set"}
      [] OTHER -> {None, "v"}

\* The input mappings: every subset of Log's fields, each with its values.
LogInputs ==
    UNION { {d \in [K -> {None, "v", "set"}] :
                 \A f \in K : d[f] \in LogFieldValues(f)} :
            K \in SUBSET LogFields }

InitLog ==
    /\ logCall = [op |-> "none"]
    /\ logRet = [ok |-> TRUE]

\* Log(data)
LogConstruct(data) ==
    /\ logCall.op = "none"
    /\ logCall' = [op |-> "init", data |-> data]
    /\ logRet' = Log_init(data)
    /\ UNCHANGED <<enumVars, hitVars>>

\* The caller has taken the entry or the error.
LogReturn ==
    /\ logCall.op # "none"
    /\ logCall' = [op |-> "none"]
    /\ logRet' = [ok |-> TRUE]
    /\ UNCHANGED <<enumVars, hitVars>>

NextLog ==
    \/ \E data \in LogInputs : LogConstruct(data)
    \/ LogReturn

----------------------------------------------------------------------------
(* Label, Votes and HowlerData: the collections and their defaults.  A     *)
(* Python list is an object with an identity: heap[r] is the content of    *)
(* the list whose reference is r, and a field holds a reference.           *)

IndexOf(seq, x) == CHOOSE i \in 1..Len(seq) : seq[i] = x

\* Label declaring only the two categories DEFAULT_LABELS seeds.
LabelFields_TwoKeys == <<"assignments", "generic">>

\* howler_data.py:204-229  the fields of Label, each odm.List(..., default=[])
LabelFields ==
    <<"assignments", "generic", "insight", "mitigation", "victim",
      "campaign", "threat", "operation">>

\* howler_data.py:232-242  the fields of Votes, each odm.List(..., default=[])
VotesFields ==
    << <<"b","e","n","i","g","n">>,
       <<"o","b","s","c","u","r","e">>,
       <<"m","a","l","i","c","i","o","u","s">> >>

\* howler_data.py:262-387  the fields of HowlerData declared
\* odm.List(..., default=[])
HowlerDataListFields ==
    <<"bundles", "data", "links", "hits", "related", "comment", "log",
      "viewers">>

\* The list objects the module creates when it is imported, in the order of
\* the source: one per default=[] of Label and of Votes, the values of
\* DEFAULT_VOTES and of DEFAULT_LABELS, one per default=[] of HowlerData.

\* howler_data.py:206-229  the default=[] object of a Label field
LabelFieldDefault(f) == IndexOf(LabelFields, f)

\* howler_data.py:234-242  the default=[] object of a Votes field
VotesFieldDefault(f) == Len(LabelFields) + IndexOf(VotesFields, f)

\* howler_data.py:245  DEFAULT_VOTES = {vote: [] for vote in Vote.list()}
DEFAULT_VOTES ==
    [v \in Range(HowlerEnum_list(Vote)) |->
        Len(LabelFields) + Len(VotesFields) + IndexOf(HowlerEnum_list(Vote), v)]

\* The keys of DEFAULT_LABELS, in the order written.
DefaultLabelKeys == <<"assignments", "generic">>

\* howler_data.py:246  DEFAULT_LABELS = {"assignments": [], "generic": []}
DEFAULT_LABELS ==
    [k \in Range(DefaultLabelKeys) |->
        Len(LabelFields) + Len(VotesFields) + Len(HowlerEnum_list(Vote))
            + IndexOf(DefaultLabelKeys, k)]

\* howler_data.py:262-387  the default=[] object of a list field of HowlerData
ListFieldDefault(f) ==
    Len(LabelFields) + Len(VotesFields) + Len(HowlerEnum_list(Vote))
        + Len(DefaultLabelKeys) + IndexOf(HowlerDataListFields, f)

\* The number of list objects the module creates.
NModuleObjects ==
    Len(LabelFields) + Len(VotesFields) + Len(HowlerEnum_list(Vote))
        + Len(DefaultLabelKeys) + Len(HowlerDataListFields)

\* A field that takes a default sharing the default's list object.
OwnedList_Shared(defaultRef, freshRef) == defaultRef

\* The list a field holds when it takes a default: a copy of the default
\* (freshRef, a new object), never the default object itself.
OwnedList(defaultRef, freshRef) == freshRef

\* A source of values for the fields of a compound: for some keys, the items
\* and, when they are those of an existing list object, its reference
\* (0 for a value of the input document).
FromInput(dict) == [k \in DOMAIN dict |-> [ref |-> 0, items |-> dict[k]]]

FromDefault(dict, h) == [k \in DOMAIN dict |-> [ref |-> dict[k], items |-> h[dict[k]]]]

\* Construction of a compound (Label, Votes, the list fields of HowlerData)
\* from raw, with its fields' new list objects allocated after base: a key
\* that is no declared field is rejected; a field that raw gives holds a new
\* list of raw's items; a field that raw omits takes its own default=[]
\* (fieldDefault[f]).
Compound(fields, fieldDefault, raw, h, base) ==
    IF ~ (DOMAIN raw \subseteq Range(fields))
    THEN [ok |-> FALSE, error |-> "UnknownField"]
    ELSE [ok |-> TRUE,
          refs |-> [f \in Range(fields) |->
                      LET fresh == base + IndexOf(fields, f)
                      IN  IF f \in DOMAIN raw
                          THEN IF raw[f].ref = 0
                               THEN fresh
                               ELSE OwnedList(raw[f].ref, fresh)
                          ELSE OwnedList(fieldDefault[f], fresh)],
          cells |-> [i \in 1..Len(fields) |->
                      IF fields[i] \in DOMAIN raw
                      THEN raw[fields[i]].items
                      ELSE h[fieldDefault[fields[i]]]]]

\* howler_data.py:370-374  labels: the input's value, DEFAULT_LABELS otherwise
LabelsRaw(input, h) ==
    IF "labels" \in DOMAIN input
    THEN FromInput(input["labels"])
    ELSE FromDefault(DEFAULT_LABELS, h)

\* howler_data.py:375-379  votes: the input's value, DEFAULT_VOTES otherwise
VotesRaw(input, h) ==
    IF "votes" \in DOMAIN input
    THEN FromInput(input["votes"])
    ELSE FromDefault(DEFAULT_VOTES, h)

\* howler_data.py:262-387  the list fields the input gives
ListsRaw(input) ==
    FromInput([k \in DOMAIN input \cap Range(HowlerDataListFields) |-> input[k]])

\* HowlerData(input), the fields other than its collections being given and
\* valid: the instance and the list objects it adds to the heap h.
HowlerData_init(input, h) ==
    LET labels == Compound(LabelFields,
                           [f \in Range(LabelFields) |-> LabelFieldDefault(f)],
                           LabelsRaw(input, h), h, Len(h))
        votes == Compound(VotesFields,
                          [f \in Range(VotesFields) |-> VotesFieldDefault(f)],
                          VotesRaw(input, h), h, Len(h) + Len(LabelFields))
        lists == Compound(HowlerDataListFields,
                          [f \in Range(HowlerDataListFields) |-> ListFieldDefault(f)],
                          ListsRaw(input), h,
                          Len(h) + Len(LabelFields) + Len(VotesFields))
    IN  IF ~ labels.ok THEN [ok |-> FALSE, error |-> labels.error]
        ELSE IF ~ votes.ok THEN [ok |-> FALSE, error |-> votes.error]
        ELSE [ok |-> TRUE,
              obj |-> [input |-> input, labels |-> labels.refs,
                       votes |-> votes.refs, lists |-> lists.refs],
              heap |-> h \o labels.cells \o votes.cells \o lists.cells]

\* The input documents, as far as the collections go: nothing given; labels
\* given; votes given; a list field given; labels given with an unknown
\* key; votes given with an unknown key.
HitInputs ==
    { <<>>,
      [labels |-> [generic |-> <<"x">>]],
      [votes |-> [k \in {<<"b","e","n","i","g","n">>} |-> <<"u">>]],
      [bundles |-> <<"b">>],
      [labels |-> [bogus |-> <<"x">>]],
      [votes |-> [k \in {<<"b","e","i","n","i","g","n">>} |-> <<"u">>]] }

\* The collections of an instance: <<part, k>> is the k-th field of part.
Cells ==
    ({"labels"} \X (1..Len(LabelFields)))
        \cup ({"votes"} \X (1..Len(VotesFields)))
        \cup ({"lists"} \X (1..Len(HowlerDataListFields)))

\* The list object that is collection c of instance hit.
CellRef(hit, c) ==
    CASE c[1] = "labels" -> hit.labels[LabelFields[c[2]]]
      [] c[1] = "votes" -> hit.votes[VotesFields[c[2]]]
      [] c[1] = "lists" -> hit.lists[HowlerDataListFields[c[2]]]

InitHit ==
    /\ heap = [r \in 1..NModuleObjects |-> <<>>]
    /\ hits = <<>>
    /\ touched = {}
    /\ hCall = [op |-> "none"]

\* HowlerData(input)
Construct(input) ==
    /\ Len(hits) < MaxHits
    /\ LET r == HowlerData_init(input, heap)
       IN  IF r.ok
           THEN /\ heap' = r.heap
                /\ hits' = Append(hits, r.obj)
                /\ hCall' = [op |-> "construct", input |-> input, ok |-> TRUE]
           ELSE /\ UNCHANGED <<heap, hits>>
                /\ hCall' = [op |-> "construct", input |-> input, ok |-> FALSE]
    /\ UNCHANGED <<touched, enumVars, logVars>>

\* hits[i].<collection c>.append(item); a collection is appended to at most
\* once.
AppendTo(i, c, item) ==
    /\ Cardinality(touched) < MaxAppends
    /\ <<i, c>> \notin touched
    /\ heap' = [heap EXCEPT ![CellRef(hits[i], c)] = Append(@, item)]
    /\ touched' = touched \cup {<<i, c>>}
    /\ hCall' = [op |-> "append", hit |-> i, cell |-> c]
    /\ UNCHANGED <<hits, enumVars, logVars>>

NextHit ==
    \/ \E input \in HitInputs : Construct(input)
    \/ \E i \in 1..Len(hits), c \in Cells : AppendTo(i, c, "m")

Init == InitEnum /\ InitLog /\ InitHit

SpecEnum == Init /\ [][NextEnum]_vars

SpecLog == Init /\ [][NextLog]_vars

SpecHit == Init /\ [][NextHit]_vars

----------------------------------------------------------------------------
(* Properties of the enumerations (specification SpecEnum) *)

\* tok is name in some casing, a separator of seps standing wherever name
\* has one.
SameUpTo(tok, name, seps) ==
    /\ Len(tok) = Len(name)
    /\ \A i \in 1..Len(name) :
           \/ upper_char(tok[i]) = upper_char(name[i])
           \/ tok[i] \in seps /\ name[i] \in seps

\* tok is the value of m, or the name of m in the forms that seps allows.
Denotes(tok, m, seps) == tok = m.value \/ SameUpTo(tok, m.name, seps)

\* The members contains() recognises by name: every declared member, except
\* that of AssessmentEscalationMap only AMBIGUOUS and ATTEMPT (the first name
\* declared for miss and for evidence).
NamedMembers(cls) ==
    IF cls = "AssessmentEscalationMap"
    THEN {m \in Range(EnumDecl(cls)) :
            m.name \in {<<"A","M","B","I","G","U","O","U","S">>,
                        <<"A","T","T","E","M","P","T">>}}
    ELSE Range(EnumDecl(cls))

\* C1 as stated: contains(token) is true when token is the value of a
\* declared member or its name in any casing with "-", "_" and " "
\* interchanged, and false for every other string.
C1_AsStated ==
    eCall.op = "contains" =>
        eRet.value =
            (\E m \in Range(EnumDecl(eCall.cls)) :
                 Denotes(eCall.token, m, {"_", "-", " "}))

\* C1 amended: contains(token) is true exactly when token is the value of a
\* declared member, or the name of a member in any casing with "-" and "_"
\* interchanged (a blank is not a separator), where of
\* AssessmentEscalationMap only the names AMBIGUOUS and ATTEMPT count.
C1_Contains ==
    eCall.op = "contains" =>
        eRet.value =
            \/ \E m \in Range(EnumDecl(eCall.cls)) : eCall.token = m.value
            \/ \E m \in NamedMembers(eCall.cls) :
                   SameUpTo(eCall.token, m.name, {"_", "-"})

\* C1 witness: a mixed-case, hyphenated form of IN_PROGRESS is found in
\* HitStatus.
C1_Witness ==
    /\ eCall.op = "contains"
    /\ eCall.cls = "HitStatus"
    /\ eCall.token = <<"I","n","-","p","R","o","G","r","E","s","S">>
    /\ eRet.value = TRUE

\* C2 as stated, at the Vote enumeration: lookup(token) returns m when
\* token is m's name (any casing; "-" or " " for "_") or m's value, and
\* fails for a token that denotes no member.
C2_AsStated ==
    (eCall.op = "getitem" /\ eCall.cls = "Vote") =>
        /\ \A m \in Range(Vote) :
               Denotes(eCall.token, m, {"_", "-", " "}) =>
                   eRet.ok /\ eRet.member = m
        /\ (~ \E m \in Range(Vote) :
                  Denotes(eCall.token, m, {"_", "-", " "})) => ~ eRet.ok

\* The Assessment values that are a miss; the other five are evidence.
MissAssessments ==
    {<<"a","m","b","i","g","u","o","u","s">>,
     <<"s","e","c","u","r","i","t","y">>,
     <<"d","e","v","e","l","o","p","m","e","n","t">>,
     <<"f","a","l","s","e","-","p","o","s","i","t","i","v","e">>,
     <<"l","e","g","i","t","i","m","a","t","e">>}

EvidenceAssessments ==
    {<<"t","r","i","v","i","a","l">>,
     <<"r","e","c","o","n">>,
     <<"a","t","t","e","m","p","t">>,
     <<"c","o","m","p","r","o","m","i","s","e">>,
     <<"m","i","t","i","g","a","t","e","d">>}

\* C3: AssessmentEscalationMap declares exactly the names of Assessment, and
\* looking an Assessment member up in it by name or by value succeeds with
\* an Escalation value: miss for ambiguous, security, development,
\* false-positive and legitimate, evidence for trivial, recon, attempt,
\* compromise and mitigated.
C3_MappingTotal ==
    /\ {e.name : e \in Range(AssessmentEscalationMap)}
           = {a.name : a \in Range(Assessment)}
    /\ {a.value : a \in Range(Assessment)}
           = MissAssessments \cup EvidenceAssessments
    /\ (eCall.op = "getitem" /\ eCall.cls = "AssessmentEscalationMap") =>
           \A a \in Range(Assessment) :
               eCall.token \in {a.name, a.value} =>
                   /\ eRet.ok
                   /\ eRet.member.value \in {e.value : e \in Range(Escalation)}
                   /\ a.value \in MissAssessments
                          => eRet.member.value = <<"m","i","s","s">>
                   /\ a.value \in EvidenceAssessments
                          => eRet.member.value = <<"e","v","i","d","e","n","c","e">>

\* C3 witness: "false-positive", given by value, is looked up and is a miss.
C3_Witness ==
    /\ eCall.op = "getitem"
    /\ eCall.cls = "AssessmentEscalationMap"
    /\ eCall.token = <<"f","a","l","s","e","-","p","o","s","i","t","i","v","e">>
    /\ eRet.ok
    /\ eRet.member.value = <<"m","i","s","s">>

\* No two declared names of decl carry the same value.
ValuesUnique(decl) ==
    \A i, j \in 1..Len(decl) : decl[i].value = decl[j].value => i = j

\* C6 as stated: in every enumeration, AssessmentEscalationMap included, no
\* two declared names carry the same value, and list() yields one value per
\* declared name.
C6_AsStated ==
    eCall.op = "list" =>
        /\ ValuesUnique(EnumDecl(eCall.cls))
        /\ Len(eRet.value) = Len(EnumDecl(eCall.cls))

\* C6 amended: in every enumeration other than AssessmentEscalationMap no
\* two declared names carry the same value and list() yields one value per
\* declared name; the ten names of AssessmentEscalationMap carry two values,
\* and its list() is <<miss, evidence>>.
C6_ValuesUnique ==
    eCall.op = "list" =>
        IF eCall.cls = "AssessmentEscalationMap"
        THEN /\ Len(EnumDecl(eCall.cls)) = 10
             /\ eRet.value = << <<"m","i","s","s">>,
                                <<"e","v","i","d","e","n","c","e">> >>
        ELSE /\ ValuesUnique(EnumDecl(eCall.cls))
             /\ eRet.value = [i \in 1..Len(EnumDecl(eCall.cls)) |->
                                  EnumDecl(eCall.cls)[i].value]

\* C6 witness: AssessmentEscalationMap has been listed.
C6_Witness ==
    /\ eCall.op = "list"
    /\ eCall.cls = "AssessmentEscalationMap"
    /\ Len(eRet.value) = 2

----------------------------------------------------------------------------
(* Properties of the Log constructor (specification SpecLog) *)

\* The four keys of a structured entry, as the rule's description lists them.
StructuredKeys == {"key", "new_value", "type", "previous_value"}

\* Log(data) raised the rule's error.
RuleRejected == logCall.op = "init" /\ ~ logRet.ok /\ logRet.error = "HowlerValueError"

\* C4: Log(data) raises the rule's error exactly when data has no
\* "explanation" key and lacks at least one of key, new_value, type and
\* previous_value.
C4_LogRule ==
    logCall.op = "init" =>
        (RuleRejected <=>
            /\ "explanation" \notin DOMAIN logCall.data
            /\ \E k \in StructuredKeys : k \notin DOMAIN logCall.data)

\* C4 witness: an input with three of the four keys and no explanation is
\* rejected.
C4_Witness ==
    /\ RuleRejected
    /\ DOMAIN logCall.data =
           {"key", "new_value", "type", "user", "timestamp"}

\* C5 as stated: the names the error reports are the structured keys that
\* are absent from the input.
C5_AsStated ==
    RuleRejected => logRet.names = StructuredKeys \ DOMAIN logCall.data

\* C5 amended: the error reports all four of key, new_value, type and
\* previous_value, whichever of them the input lacks.
C5_ErrorNames ==
    RuleRejected => logRet.names = StructuredKeys

\* C5 witness: an input lacking only previous_value is rejected, and the
\* error names more than previous_value.
C5_Witness ==
    /\ RuleRejected
    /\ StructuredKeys \ DOMAIN logCall.data = {"previous_value"}
    /\ logRet.names # {"previous_value"}

\* C10 as stated: an accepted entry has an explanation that is not None, or
\* key, previous_value, new_value and type that are all not None.
C10_AsStated ==
    (logCall.op = "init" /\ logRet.ok) =>
        \/ logRet.obj["explanation"] # None
        \/ \A k \in StructuredKeys : logRet.obj[k] # None

----------------------------------------------------------------------------
(* Properties of the defaulted collections (specification SpecHit) *)

\* The labels and votes that input gives have no key other than the
\* categories of Label and the three votes.
KnownKeys(input) ==
    /\ "labels" \in DOMAIN input =>
           DOMAIN input["labels"] \subseteq
               {"assignments", "generic", "insight", "mitigation",
                "victim", "campaign", "threat", "operation"}
    /\ "votes" \in DOMAIN input =>
           DOMAIN input["votes"] \subseteq
               {<<"m","a","l","i","c","i","o","u","s">>,
                <<"o","b","s","c","u","r","e">>,
                <<"b","e","n","i","g","n">>}

\* The last operation was HowlerData(input) for an input without key, whose
\* labels and votes, where given, have known keys.
ConstructedWithout(key) ==
    /\ hCall.op = "construct"
    /\ key \notin DOMAIN hCall.input
    /\ KnownKeys(hCall.input)

\* C7: HowlerData(input) for an input with no "labels" key (and no unknown
\* key in its votes) succeeds, and the
\* instance's labels have the eight categories, each an empty list, while
\* DEFAULT_LABELS has only assignments and generic.
C7_LabelsDefault ==
    /\ DOMAIN DEFAULT_LABELS = {"assignments", "generic"}
    /\ ConstructedWithout("labels") =>
           /\ hCall.ok
           /\ DOMAIN hits[Len(hits)].labels =
                  {"assignments", "generic", "insight", "mitigation",
                   "victim", "campaign", "threat", "operation"}
           /\ \A k \in DOMAIN hits[Len(hits)].labels :
                  heap[hits[Len(hits)].labels[k]] = <<>>

\* C7 witness: an instance was constructed from an input without labels,
\* its insight list, which DEFAULT_LABELS does not seed, being empty.
C7_Witness ==
    /\ ConstructedWithout("labels")
    /\ hCall.ok
    /\ "insight" \notin DOMAIN DEFAULT_LABELS
    /\ heap[hits[Len(hits)].labels["insight"]] = <<>>

\* The values of Vote's members.
VoteValues ==
    {<<"m","a","l","i","c","i","o","u","s">>,
     <<"o","b","s","c","u","r","e">>,
     <<"b","e","n","i","g","n">>}

\* C8: HowlerData(input) for an input with no "votes" key (and no unknown
\* key in its labels) succeeds, and the
\* keys of the instance's votes are exactly malicious, obscure and benign,
\* each an empty list; the keys of DEFAULT_VOTES are Vote.list(), and each is
\* a declared field of Votes.
C8_VotesDefault ==
    /\ DOMAIN DEFAULT_VOTES = Range(HowlerEnum_list(Vote))
    /\ DOMAIN DEFAULT_VOTES = VoteValues
    /\ DOMAIN DEFAULT_VOTES \subseteq Range(VotesFields)
    /\ ConstructedWithout("votes") =>
           /\ hCall.ok
           /\ DOMAIN hits[Len(hits)].votes = VoteValues
           /\ \A k \in VoteValues : heap[hits[Len(hits)].votes[k]] = <<>>

\* C8 witness: an instance was constructed from an input without votes and
\* has an empty benign list.
C8_Witness ==
    /\ ConstructedWithout("votes")
    /\ hCall.ok
    /\ heap[hits[Len(hits)].votes[<<"b","e","n","i","g","n">>]] = <<>>

\* The input leaves collection c to a default.
Omitted(input, c) ==
    CASE c[1] = "labels" ->
             \/ "labels" \notin DOMAIN input
             \/ LabelFields[c[2]] \notin DOMAIN input["labels"]
      [] c[1] = "votes" ->
             \/ "votes" \notin DOMAIN input
             \/ VotesFields[c[2]] \notin DOMAIN input["votes"]
      [] c[1] = "lists" -> HowlerDataListFields[c[2]] \notin DOMAIN input

\* C9: whatever instances were constructed and whichever of their
\* collections were appended to, every list object of the module
\* (DEFAULT_VOTES, DEFAULT_LABELS, the default=[] of the fields) is still
\* empty, and a collection that an instance took from a default is empty
\* unless it was itself appended to, in which case it holds what was
\* appended.
C9_DefaultsNotShared ==
    /\ \A r \in 1..NModuleObjects : heap[r] = <<>>
    /\ \A i \in 1..Len(hits), c \in Cells :
           Omitted(hits[i].input, c) =>
               heap[CellRef(hits[i], c)] =
                   IF <<i, c>> \in touched THEN <<"m">> ELSE <<>>

\* C9 witness: the first instance's defaulted collection c was appended to,
\* then a second instance was constructed that also took c from the default,
\* and the second instance's c is empty.
C9_Witness ==
    /\ Len(hits) = 2
    /\ hCall.op = "construct"
    /\ \E c \in Cells :
           /\ <<1, c>> \in touched
           /\ Omitted(hits[1].input, c) /\ Omitted(hits[2].input, c)
           /\ heap[CellRef(hits[1], c)] # <<>>
           /\ heap[CellRef(hits[2], c)] = <<>>

====
